---- MODULE Spec2Model ----
(***************************************************************************)
(* Model of sgan/data/archived/trajectories_general_by_schema.py:          *)
(* the schema-driven row encoder (TrajectoryDataset.parse_file), the frame *)
(* grouper and sequence windower (TrajectoryDataset.__init__), the dataset *)
(* accessors (__len__, __getitem__) and the batch collator (seq_collate).  *)
(*                                                                         *)
(* Representation.                                                         *)
(*  - A token of a parsed line is a record [k, v]: k = "f" for a token     *)
(*    that read_file coerced to float, k = "s" for one it left a string.   *)
(*    A position tag (column 6) is a string token whose v is the list of   *)
(*    its comma-separated labels.                                          *)
(*  - Numbers are exact.  x and y of the input are integers in units of    *)
(*    1e-5; a stored coordinate is the rounded input times the numerator   *)
(*    of the unit factor over FactorDen.  The cast to 32-bit floats is     *)
(*    not modelled.                                                        *)
(*  - An array is a record [shape, d]: d is the nested sequence of its     *)
(*    entries, shape its dimensions (kept because a zero-length axis       *)
(*    leaves no trace in d).                                               *)
(***************************************************************************)
EXTENDS Integers, Sequences, FiniteSets, TLC

\* Frame ids of an input file are drawn from 0 .. MaxFrames - 1.
MaxFrames == 3
\* Longest list of samples handed to seq_collate (besides the whole dataset).
MaxBatch == 2

---------------------------------------------------------------------------
\* Generic helpers

\* a function on 1..n as an explicit tuple (evaluated once)
Tuple(f) == f \o <<>>

Min(a, b) == IF a < b THEN a ELSE b

Max(a, b) == IF a > b THEN a ELSE b

RECURSIVE SortedSeq(_)
\* np.unique of a set of numbers: the distinct values in increasing order.
SortedSeq(S) == IF S = {} THEN <<>> ELSE LET m == CHOOSE x \in S : \A y \in S : x <= y IN <<m>> \o SortedSeq(S \ {m})

Range(s) == {s[i] : i \in 1..Len(s)}

RECURSIVE Sum(_)
Sum(s) == IF s = <<>> THEN 0 ELSE Head(s) + Sum(Tail(s))

RECURSIVE Flatten(_)
\* concatenation of a list of lists
Flatten(ss) == IF ss = <<>> THEN <<>> ELSE Head(ss) \o Flatten(Tail(ss))

\* list.index(x), 0-based; the list must hold x (Python raises ValueError otherwise)
IndexOf(s, x) == (CHOOSE i \in 1..Len(s) : s[i] = x /\ \A j \in 1..(i - 1) : s[j] # x) - 1

\* Python's s[a:b] for 0 <= a, b: the bounds are clipped to the list
PySlice(s, a, b) == SubSeq(s, Min(a, Len(s)) + 1, Min(b, Len(s)))

\* math.ceil(a / b) for b > 0
CeilDiv(a, b) == -((-a) \div b)

---------------------------------------------------------------------------
\* Tokens of a parsed line (read_file)

Num(v) == [k |-> "f", v |-> v]

Str(s) == [k |-> "s", v |-> s]

\* value == "ball"
IsBall(tok) == tok.k = "s" /\ tok.v = "ball"

\* equality of two tokens: a float never equals a string
TokEq(a, b) == a.k = b.k /\ a.v = b.v

\* value in list
TokIn(value, list) == \E i \in 1..Len(list) : TokEq(list[i], value)

\* list.index(value), 0-based
TokIndex(list, value) == (CHOOSE i \in 1..Len(list) : TokEq(list[i], value) /\ \A j \in 1..(i - 1) : ~TokEq(list[j], value)) - 1

\* str(value): a float prints with its fractional part, a string is itself
PyStr(tok) == IF tok.k = "f" THEN Str(ToString(tok.v) \o ".0") ELSE tok

---------------------------------------------------------------------------
\* Input files

\* the reserved agent id of the ball
BallId == -1

Players == {1, 2}

Frames == 0..(MaxFrames - 1)

\* Coordinates of agent a in frame f of file n, in units of 1e-5.
RawX(a, f, n) == 30485 * f * f + 1005 * a + 11 * n + 2000

RawY(a, f, n) == 90000 - 7775 * f + 20000 * a + 5 * f * f * f * n

\* The position tag written for a player.
TagOf(a) == IF a = 1 THEN <<"C">> ELSE <<"F", "G">>

\* (frame, agent) pairs of a file in file order: by frame, the ball last
AgentCode(a) == IF a = BallId THEN 9 ELSE a

RowKeys(pres) == SortedSeq({p[1] * 10 + AgentCode(p[2]) : p \in {q \in Frames \X (DOMAIN pres) : q[1] \in pres[q[2]]}})

KeyFrame(key) == key \div 10

KeyAgent(key) == IF key % 10 = 9 THEN BallId ELSE key % 10

\* One line of a file as read_file returns it: column 0 is the frame id again
\* (mode "frame") or the row's ordinal in the file (mode "row"); column 6 is
\* written only when the schema declares positions, and never for the ball.
MakeLine(r, key, mode, team, n, withPos) ==
  LET f == KeyFrame(key)
      a == KeyAgent(key)
      base == << Num(IF mode = "row" THEN r - 1 ELSE f), Num(f),
                 IF a = BallId THEN Str("ball") ELSE Num(team[a]),
                 IF a = BallId THEN Str("ball") ELSE Num(a),
                 Num(RawX(a, f, n)), Num(RawY(a, f, n)) >>
  IN IF withPos /\ a # BallId THEN Append(base, Str(TagOf(a))) ELSE base

LinesOf(keys, mode, team, n, withPos) == Tuple([r \in 1..Len(keys) |-> MakeLine(r, keys[r], mode, team, n, withPos)])

MakeLines(pres, mode, team, n, withPos) == LinesOf(RowKeys(pres), mode, team, n, withPos)

---------------------------------------------------------------------------
\* parse_file

\* np.unique([line[2] for line in lines]).tolist(): the distinct values in
\* increasing order; floats stay floats unless a string is among them, in which
\* case every value is its string (digits sort before "ball").
TeamIdsOf(lines) ==
  LET nums == SortedSeq({lines[i][3].v : i \in {j \in 1..Len(lines) : lines[j][3].k = "f"}})
      hasStr == \E i \in 1..Len(lines) : lines[i][3].k = "s"
  IN IF hasStr THEN [i \in 1..Len(nums) |-> PyStr(Num(nums[i]))] \o <<Str("ball")>>
     ELSE Tuple([i \in 1..Len(nums) |-> Num(nums[i])])

TeamVecLen(schema) == IF schema.with_ball THEN 3 ELSE 2

TeamSlice(schema) == <<5, 5 + TeamVecLen(schema)>>

PosSlice(schema) == <<5 + TeamVecLen(schema), 5 + TeamVecLen(schema) + Len(schema.positions)>>

\* the index team_ids.index(...) of a non-ball team value
TeamIndex(value, team_ids) == IF TokIn(value, team_ids) THEN TokIndex(team_ids, value) ELSE TokIndex(team_ids, PyStr(value))

\* TeamVector with the ball written to the first slot instead of the last
TeamVectorBallFirst(value, team_ids) == LET slot == IF IsBall(value) THEN 1 ELSE TeamIndex(value, team_ids) + 1 IN Tuple([i \in 1..3 |-> IF i = slot THEN 1 ELSE 0])

\* team_vector after column 2 was handled: [0.0] * 3 with one slot set
TeamVector(value, team_ids) == LET slot == IF IsBall(value) THEN 3 ELSE TeamIndex(value, team_ids) + 1 IN Tuple([i \in 1..3 |-> IF i = slot THEN 1 ELSE 0])

\* pos_vector after column 6 was handled (all zero when the line has no column 6)
PosVector(line, pos_ids) ==
  LET with_position == Len(pos_ids) > 0
      tags == IF Len(line) >= 7 /\ with_position THEN Range(line[7].v) ELSE {}
  IN Tuple([i \in 1..Len(pos_ids) |-> IF \E t \in tags : IndexOf(pos_ids, t) = i - 1 THEN 1 ELSE 0])

RECURSIVE RowCols(_, _, _)
\* the values appended to row by the column loop, from column col (0-based) on
RowCols(line, col, with_position) ==
  IF col >= Len(line) THEN <<>>
  ELSE (IF col = 2 THEN <<>>
        ELSE IF col = 3 THEN <<IF IsBall(line[col + 1]) THEN BallId ELSE line[col + 1].v>>
        ELSE IF col = 6 /\ with_position THEN <<>>
        ELSE <<line[col + 1].v>>) \o RowCols(line, col + 1, with_position)

EncodeRow(line, team_ids, schema) == RowCols(line, 0, Len(schema.positions) > 0) \o TeamVector(line[3], team_ids) \o PosVector(line, schema.positions)

\* np.asarray(data): the encoded rows, in file order
EncodeRows(lines, team_ids, schema) == Tuple([i \in 1..Len(lines) |-> EncodeRow(lines[i], team_ids, schema)])

ParseFile(lines, schema) == EncodeRows(lines, TeamIdsOf(lines), schema)

---------------------------------------------------------------------------
\* Frame grouper

\* frames = np.unique(data[:, 0]).tolist()
FramesOf(data) == SortedSeq({data[i][1] : i \in 1..Len(data)})

\* data[frame == data[:, 1], :]
FrameBlock(data, frame) == SelectSeq(data, LAMBDA row : row[2] = frame)

FrameData(data, frames) == Tuple([k \in 1..Len(frames) |-> FrameBlock(data, frames[k])])

\* int(math.ceil((len(frames) - self.seq_len + 1) / skip))
NumSequences(n, seq_len, skip) == CeilDiv(n - seq_len + 1, skip)

\* the upper bound of range(0, num_sequences * self.skip + 1, skip)
RangeStop(num_sequences, skip) == num_sequences * skip + 1

---------------------------------------------------------------------------
\* Arrays

Zeros3(A, C, T) == [shape |-> <<A, C, T>>, d |-> Tuple([a \in 1..A |-> Tuple([c \in 1..C |-> Tuple([t \in 1..T |-> 0])])])]

\* x[a:b] along the first axis
Slice0(x, a, b) == LET lo == Min(a, x.shape[1]) hi == Max(lo, Min(b, x.shape[1])) IN [shape |-> [x.shape EXCEPT ![1] = hi - lo], d |-> SubSeq(x.d, lo + 1, hi)]

\* x[:, :, a:b] of a three-axis array
SliceTime(x, a, b) == LET lo == Min(a, x.shape[3]) hi == Max(lo, Min(b, x.shape[3])) IN [shape |-> <<x.shape[1], x.shape[2], hi - lo>>, d |-> Tuple([i \in 1..x.shape[1] |-> Tuple([c \in 1..x.shape[2] |-> SubSeq(x.d[i][c], lo + 1, hi)])])]

\* concatenation of a non-empty list of arrays along the first axis
Cat0(xs) == [shape |-> [xs[1].shape EXCEPT ![1] = Sum([i \in 1..Len(xs) |-> xs[i].shape[1]])], d |-> Flatten([i \in 1..Len(xs) |-> xs[i].d])]

\* x.permute(2, 0, 1): (agent, feature, time) -> (time, agent, feature)
Permute201(x) == [shape |-> <<x.shape[3], x.shape[1], x.shape[2]>>, d |-> Tuple([t \in 1..x.shape[3] |-> Tuple([a \in 1..x.shape[1] |-> Tuple([c \in 1..x.shape[2] |-> x.d[a][c][t]])])])]

\* [0] + np.cumsum(lens).tolist()
CumStartIdx(lens) == Tuple([i \in 1..(Len(lens) + 1) |-> Sum(SubSeq(lens, 1, i - 1))])

\* [(start, end) for start, end in zip(cum_start_idx, cum_start_idx[1:])]
StartEnd(cum_start_idx) == Tuple([i \in 1..(Len(cum_start_idx) - 1) |-> <<cum_start_idx[i], cum_start_idx[i + 1]>>])

---------------------------------------------------------------------------
\* Sequence windower: one window of one file

\* the unit factor is FactorNum / FactorDen: 0.3048 = 381 / 1250 for "meter"
FactorDen == 1250

FactorNum(me) == IF me = "meter" THEN 381 ELSE FactorDen

\* np.around(v, decimals=4) of a value in units of 1e-5: to the nearest
\* multiple of 10, a tie to the even one
Around4(v) == LET q == v \div 10 r == v % 10 IN 10 * (IF r > 5 \/ (r = 5 /\ q % 2 = 1) THEN q + 1 ELSE q)

\* np.around of an encoded row: only x and y carry decimals
AroundRow(row) == Tuple([c \in 1..Len(row) |-> IF c \in {4, 5} THEN Around4(row[c]) ELSE row[c]])

\* frame_data[idx:idx + self.seq_len]
WindowBlocks(frame_data_, idx_, seq_len_) == PySlice(frame_data_, idx_, idx_ + seq_len_)

\* np.unique(curr_seq_data[:, 2])
PedsInCurrSeq(curr_seq_data) == SortedSeq({curr_seq_data[i][3] : i \in 1..Len(curr_seq_data)})

\* PedRows with >= in place of ==
PedRowsFrom(curr_seq_data, ped_id) == SelectSeq(curr_seq_data, LAMBDA row : row[3] >= ped_id)

\* curr_seq_data[curr_seq_data[:, 2] == ped_id, :]
PedRows(curr_seq_data, ped_id) == SelectSeq(curr_seq_data, LAMBDA row : row[3] = ped_id)

AroundRows(rows) == Tuple([i \in 1..Len(rows) |-> AroundRow(rows[i])])

\* curr_ped_seq_full after np.around(..., decimals=4)
CurrPedSeqFull(curr_seq_data, ped_id) == AroundRows(PedRows(curr_seq_data, ped_id))

PadFront(full, frames_, idx_) == IndexOf(frames_, full[1][2]) - idx_

PadEnd(full, frames_, idx_) == IndexOf(frames_, full[Len(full)][2]) - idx_ + 1

\* the negation of the test that skips an agent
KeepPed(pad_front, pad_end, nrows, seq_len_) == ~(pad_end - pad_front # seq_len_ \/ nrows # seq_len_)

KeepFull(full, frames_, idx_, seq_len_) == KeepPed(PadFront(full, frames_, idx_), PadEnd(full, frames_, idx_), Len(full), seq_len_)

\* np.transpose(full[:, lo:hi]): one sequence over the rows per column
ColsT(full, lo, hi) == Tuple([c \in 1..(hi - lo) |-> Tuple([t \in 1..Len(full) |-> full[t][lo + c]])])

\* np.transpose(full[:, 3:5]) * self.factor
Scaled(xy, factor) == Tuple([c \in 1..Len(xy) |-> Tuple([t \in 1..Len(xy[c]) |-> xy[c][t] * factor])])

CurrPedSeq(full, factor) == Scaled(ColsT(full, 3, 5), factor)

\* RelCurrPedSeq with every step taken from the first position
RelFromFirst(curr_ped_seq) == Tuple([c \in 1..Len(curr_ped_seq) |-> Tuple([t \in 1..Len(curr_ped_seq[c]) |-> IF t = 1 THEN 0 ELSE curr_ped_seq[c][t] - curr_ped_seq[c][1]])])

\* rel[:, 1:] = seq[:, 1:] - seq[:, :-1] on zeros of the same shape
RelCurrPedSeq(curr_ped_seq) == Tuple([c \in 1..Len(curr_ped_seq) |-> Tuple([t \in 1..Len(curr_ped_seq[c]) |-> IF t = 1 THEN 0 ELSE curr_ped_seq[c][t] - curr_ped_seq[c][t - 1]])])

\* poly_fit for traj_len <= 3, the lengths drawn here: a degree-2 fit of no
\* more than three samples has an empty residual array, whose comparison with
\* the threshold is an empty array, which is false
PolyFit(traj, traj_len) == CASE traj_len <= 3 -> 0

\* dst[:, pad_front:pad_end] = src for one agent's row of a window array
AssignSlice(dst, pad_front, pad_end, src) == Tuple([c \in 1..Len(dst) |-> Tuple([t \in 1..Len(dst[c]) |-> IF pad_front < t /\ t <= pad_end THEN src[c][t - pad_front] ELSE dst[c][t]])])

\* the agents of the window that pass the test, in the order of the loop
ConsideredPeds(curr_seq_data, frames_, idx_, seq_len_) == SelectSeq(PedsInCurrSeq(curr_seq_data), LAMBDA ped_id : KeepFull(CurrPedSeqFull(curr_seq_data, ped_id), frames_, idx_, seq_len_))

\* what the agent loop computes for one agent that passes the test
PedEntry(full, curr_ped_seq, frames_, idx_, pred_len_, tsl, psl) ==
  [ pad_front |-> PadFront(full, frames_, idx_),
    pad_end |-> PadEnd(full, frames_, idx_),
    curr_ped_seq |-> curr_ped_seq,
    rel_curr_ped_seq |-> RelCurrPedSeq(curr_ped_seq),
    non_linear |-> PolyFit(curr_ped_seq, pred_len_),
    curr_ped_team |-> ColsT(full, tsl[1], tsl[2]),
    curr_ped_pos |-> ColsT(full, psl[1], psl[2]) ]

PedEntryOf(full, frames_, idx_, pred_len_, factor, tsl, psl) == PedEntry(full, CurrPedSeq(full, factor), frames_, idx_, pred_len_, tsl, psl)

PedEntries(curr_seq_data, kept, frames_, idx_, pred_len_, factor, tsl, psl) == Tuple([i \in 1..Len(kept) |-> PedEntryOf(CurrPedSeqFull(curr_seq_data, kept[i]), frames_, idx_, pred_len_, factor, tsl, psl)])

\* row _idx of a window array of C features after its slice was assigned
FilledRow(C, seq_len_, e, src) == AssignSlice(Zeros3(1, C, seq_len_).d[1], e.pad_front, e.pad_end, src)

\* The window arrays after the agent loop, cut to [:num_peds_considered].
WindowArrays(kept, ped, n, seq_len_, tw, pw) ==
  [ num_peds_considered |-> n,
    peds |-> kept,
    non_linear |-> Tuple([i \in 1..n |-> ped[i].non_linear]),
    curr_seq |-> [shape |-> <<n, 2, seq_len_>>, d |-> Tuple([i \in 1..n |-> FilledRow(2, seq_len_, ped[i], ped[i].curr_ped_seq)])],
    curr_seq_rel |-> [shape |-> <<n, 2, seq_len_>>, d |-> Tuple([i \in 1..n |-> FilledRow(2, seq_len_, ped[i], ped[i].rel_curr_ped_seq)])],
    curr_loss_mask |-> [shape |-> <<n, seq_len_>>, d |-> Tuple([i \in 1..n |-> Tuple([t \in 1..seq_len_ |-> IF ped[i].pad_front < t /\ t <= ped[i].pad_end THEN 1 ELSE 0])])],
    curr_team |-> [shape |-> <<n, tw, seq_len_>>, d |-> Tuple([i \in 1..n |-> FilledRow(tw, seq_len_, ped[i], ped[i].curr_ped_team)])],
    curr_position |-> [shape |-> <<n, pw, seq_len_>>, d |-> Tuple([i \in 1..n |-> FilledRow(pw, seq_len_, ped[i], ped[i].curr_ped_pos)])] ]

WindowOfKept(curr_seq_data, kept, frames_, idx_, seq_len_, pred_len_, factor, tsl, psl) == WindowArrays(kept, PedEntries(curr_seq_data, kept, frames_, idx_, pred_len_, factor, tsl, psl), Len(kept), seq_len_, tsl[2] - tsl[1], psl[2] - psl[1])

WindowOfData(curr_seq_data, frames_, idx_, seq_len_, pred_len_, factor, tsl, psl) == WindowOfKept(curr_seq_data, ConsideredPeds(curr_seq_data, frames_, idx_, seq_len_), frames_, idx_, seq_len_, pred_len_, factor, tsl, psl)

\* The body of the window loop for the window at idx.
Window(frame_data_, frames_, idx_, seq_len_, pred_len_, factor, tsl, psl) == WindowOfData(Flatten(WindowBlocks(frame_data_, idx_, seq_len_)), frames_, idx_, seq_len_, pred_len_, factor, tsl, psl)

\* Retained with >= in place of >
RetainedAtLeast(num_peds_considered, min_ped_) == num_peds_considered >= min_ped_

\* if num_peds_considered > min_ped
Retained(num_peds_considered, min_ped_) == num_peds_considered > min_ped_

\* NonLinearAdd moved out of the test of the window
NonLinearAddAlways(non_linear_ped_, flags, retained) == non_linear_ped_ \o flags

\* non_linear_ped += _non_linear_ped, under the test of the window
NonLinearAdd(non_linear_ped_, flags, retained) == IF retained THEN non_linear_ped_ \o flags ELSE non_linear_ped_

---------------------------------------------------------------------------
\* State

VARIABLES
  schema, obs_len, pred_len, skip, min_ped, metric,  \* arguments of __init__
  files,              \* the parsed lines of all_files[:2]
  pc,                 \* "load", "window", "loaded", "error"
  file_no,            \* position of the loop over the files (1-based)
  team_slice, pos_slice,
  data,               \* the encoded rows of the file at file_no
  frames, frame_data, num_sequences, idx,
  num_peds_in_seq, seq_list, seq_list_rel, loss_mask_list, non_linear_ped,
  team_vec_list, pos_vec_list,
  num_seq, obs_traj, pred_traj, obs_traj_rel, pred_traj_rel,
  obs_team_vec, obs_pos_vec, obs_team_vec_pred, obs_pos_vec_pred,
  loss_mask, non_linear, seq_start_end,
  result,             \* the call made on the loaded dataset, and what it returned
  log,                \* history: the windows processed, with their kept agents
  non_linear_owner    \* history: the window and the agent of each stored flag

argVars == <<schema, obs_len, pred_len, skip, min_ped, metric, files>>

fileVars == <<team_slice, pos_slice, data, frames, frame_data, num_sequences>>

listVars == <<num_peds_in_seq, seq_list, seq_list_rel, loss_mask_list, non_linear_ped, team_vec_list, pos_vec_list, non_linear_owner>>

dataVars == <<num_seq, obs_traj, pred_traj, obs_traj_rel, pred_traj_rel, obs_team_vec, obs_pos_vec, obs_team_vec_pred, obs_pos_vec_pred, loss_mask, non_linear, seq_start_end>>

vars == <<argVars, pc, file_no, fileVars, idx, listVars, dataVars, result, log>>

seq_len == obs_len + pred_len

NoArray == [shape |-> <<0>>, d |-> <<>>]

---------------------------------------------------------------------------
\* Inputs

Schemas == [positions : {<<>>, <<"C", "F", "G">>}, with_ball : BOOLEAN]

LenPairs == {<<1, 1>>, <<2, 1>>, <<1, 2>>}

Skips == {1, 2}

MinPeds == {0, 1}

Metrics == {"meter", "foot"}

Modes == {"frame", "row"}

\* the team of each player: two teams (file-local index 1 and 0), or one
TeamMaps == {[a \in Players |-> IF a = 1 THEN 2 ELSE 1], [a \in Players |-> 2]}

FullSchema == [positions |-> <<"C", "F", "G">>, with_ball |-> TRUE]

\* the agents a file of the schema may hold: the ball only if it has a slot
AgentsOf(sch) == IF sch.with_ball THEN Players \cup {BallId} ELSE Players

\* which agent has a row in which frame of a file: any frames for the players,
\* all or none for the ball
AnyPresences == {p \in [Players \cup {BallId} -> SUBSET Frames] : p[BallId] \in {{}, Frames}}

\* every agent in all frames, or in all but the last
LongPresences(sch) == [AgentsOf(sch) -> {Frames, Frames \ {MaxFrames - 1}}]

InitState(sch, lp, sk, mp, me, fs) ==
  /\ schema = sch
  /\ obs_len = lp[1] /\ pred_len = lp[2]
  /\ skip = sk
  /\ min_ped = mp
  /\ metric = me
  /\ files = fs
  /\ pc = "load"
  /\ file_no = 1
  /\ team_slice = <<>> /\ pos_slice = <<>>
  /\ data = <<>> /\ frames = <<>> /\ frame_data = <<>> /\ num_sequences = 0 /\ idx = 0
  /\ num_peds_in_seq = <<>> /\ seq_list = <<>> /\ seq_list_rel = <<>>
  /\ loss_mask_list = <<>> /\ non_linear_ped = <<>>
  /\ team_vec_list = <<>> /\ pos_vec_list = <<>>
  /\ num_seq = 0
  /\ obs_traj = NoArray /\ pred_traj = NoArray /\ obs_traj_rel = NoArray /\ pred_traj_rel = NoArray
  /\ obs_team_vec = NoArray /\ obs_pos_vec = NoArray
  /\ obs_team_vec_pred = NoArray /\ obs_pos_vec_pred = NoArray
  /\ loss_mask = NoArray /\ non_linear = NoArray /\ seq_start_end = <<>>
  /\ result = [op |-> "none"]
  /\ log = <<>>
  /\ non_linear_owner = <<>>

\* one file, any presence of the players, any window lengths, stride and min_ped
InitWindows == \E lp \in LenPairs, sk \in Skips, mp \in MinPeds, pres \in AnyPresences, mode \in Modes, team \in {tm \in TeamMaps : tm[1] # tm[2]} : InitState(FullSchema, lp, sk, mp, "meter", <<MakeLines(pres, mode, team, 1, TRUE)>>)

\* one file, any schema, team assignment and unit
InitSchemas == \E sch \in Schemas, lp \in LenPairs, me \in Metrics, mode \in Modes, team \in TeamMaps : \E pres \in LongPresences(sch) : InitState(sch, lp, 1, 0, me, <<MakeLines(pres, mode, team, 1, Len(sch.positions) > 0)>>)

\* two files with their own team assignments
InitTwoFiles == \E sk \in Skips, mp \in MinPeds, t1 \in TeamMaps, t2 \in TeamMaps : \E p1 \in LongPresences(FullSchema), p2 \in LongPresences(FullSchema) : InitState(FullSchema, <<1, 1>>, sk, mp, "foot", <<MakeLines(p1, "frame", t1, 1, TRUE), MakeLines(p2, "frame", t2, 2, TRUE)>>)

Init == InitWindows \/ InitSchemas \/ InitTwoFiles

---------------------------------------------------------------------------
\* __init__

\* One pass of "for path in all_files[:2]" up to the window loop: parse_file,
\* the frame grouper and num_sequences.  A file with no window goes on to the
\* next file at once.
LoadFile ==
  /\ pc = "load"
  /\ file_no <= Len(files)
  /\ \E lines \in {files[file_no]} : \E rows \in {ParseFile(lines, schema)} : \E fr \in {FramesOf(rows)} : \E ns \in {NumSequences(Len(fr), seq_len, skip)} :
        IF lines = <<>>
        THEN \* data[:, 0] of an array with no row: IndexError
             /\ pc' = "error"
             /\ UNCHANGED <<file_no, fileVars, idx>>
        ELSE /\ team_slice' = TeamSlice(schema)
             /\ pos_slice' = PosSlice(schema)
             /\ data' = rows
             /\ frames' = fr
             /\ frame_data' = FrameData(rows, fr)
             /\ num_sequences' = ns
             /\ idx' = 0
             /\ IF 0 < RangeStop(ns, skip)
                THEN pc' = "window" /\ file_no' = file_no
                ELSE pc' = "load" /\ file_no' = file_no + 1
  /\ UNCHANGED <<argVars, listVars, dataVars, result, log>>

\* One pass of "for idx in range(0, num_sequences * self.skip + 1, skip)".
ProcessWindow ==
  /\ pc = "window"
  /\ IF WindowBlocks(frame_data, idx, seq_len) = <<>>
     THEN \* np.concatenate of an empty list: ValueError
          /\ pc' = "error"
          /\ UNCHANGED <<file_no, idx, listVars, log>>
     ELSE \E w \in {Window(frame_data, frames, idx, seq_len, pred_len, FactorNum(metric), team_slice, pos_slice)} : \E keep \in {Retained(w.num_peds_considered, min_ped)} :
          LET add(list, x) == IF keep THEN Append(list, x) ELSE list
          IN /\ non_linear_ped' = NonLinearAdd(non_linear_ped, w.non_linear, keep)
             /\ non_linear_owner' = NonLinearAdd(non_linear_owner, [i \in 1..Len(w.peds) |-> <<file_no, idx, w.peds[i]>>], keep)
             /\ num_peds_in_seq' = add(num_peds_in_seq, w.num_peds_considered)
             /\ loss_mask_list' = add(loss_mask_list, w.curr_loss_mask)
             /\ seq_list' = add(seq_list, w.curr_seq)
             /\ seq_list_rel' = add(seq_list_rel, w.curr_seq_rel)
             /\ team_vec_list' = add(team_vec_list, w.curr_team)
             /\ pos_vec_list' = add(pos_vec_list, w.curr_position)
             /\ log' = Append(log, [file |-> file_no, idx |-> idx, peds |-> w.peds, retained |-> keep])
             /\ IF idx + skip < RangeStop(num_sequences, skip)
                THEN pc' = "window" /\ idx' = idx + skip /\ file_no' = file_no
                ELSE pc' = "load" /\ idx' = idx /\ file_no' = file_no + 1
  /\ UNCHANGED <<argVars, fileVars, dataVars, result>>

\* The code after the loop over the files: the concatenations, the split into
\* the observed and the predicted part, and the range index.
Concatenate ==
  /\ pc = "load"
  /\ file_no > Len(files)
  /\ IF seq_list = <<>>
     THEN \* np.concatenate of an empty list: ValueError
          /\ pc' = "error"
          /\ UNCHANGED dataVars
     ELSE \E all \in {Cat0(seq_list)}, rel \in {Cat0(seq_list_rel)}, team \in {Cat0(team_vec_list)}, pos \in {Cat0(pos_vec_list)} :
             /\ num_seq' = Len(seq_list)
             /\ obs_traj' = SliceTime(all, 0, obs_len)
             /\ pred_traj' = SliceTime(all, obs_len, seq_len)
             /\ obs_traj_rel' = SliceTime(rel, 0, obs_len)
             /\ pred_traj_rel' = SliceTime(rel, obs_len, seq_len)
             /\ obs_team_vec' = SliceTime(team, 0, obs_len)
             /\ obs_pos_vec' = SliceTime(pos, 0, obs_len)
             /\ obs_team_vec_pred' = SliceTime(team, obs_len, seq_len)
             /\ obs_pos_vec_pred' = SliceTime(pos, obs_len, seq_len)
             /\ loss_mask' = Cat0(loss_mask_list)
             /\ non_linear' = [shape |-> <<Len(non_linear_ped)>>, d |-> non_linear_ped]
             /\ seq_start_end' = StartEnd(CumStartIdx(num_peds_in_seq))
             /\ pc' = "loaded"
  /\ UNCHANGED <<argVars, file_no, fileVars, idx, listVars, result, log>>

---------------------------------------------------------------------------
\* __len__ and __getitem__

\* __len__
Length == num_seq

\* IndexInRange without the first element counted from the end
IndexInRangeStrict(n, index) == -n < index /\ index < n

\* whether list[index] of a list of n elements is defined
IndexInRange(n, index) == -n <= index /\ index < n

\* the position list[index] reads: a negative index counts from the end
ListPos(n, index) == IF index < 0 THEN index + n ELSE index

\* the list out of __getitem__ for the range (start, end)
ItemOf(range) ==
  << Slice0(obs_traj, range[1], range[2]), Slice0(pred_traj, range[1], range[2]),
     Slice0(obs_traj_rel, range[1], range[2]), Slice0(pred_traj_rel, range[1], range[2]),
     Slice0(obs_team_vec, range[1], range[2]), Slice0(obs_pos_vec, range[1], range[2]),
     Slice0(obs_team_vec_pred, range[1], range[2]), Slice0(obs_pos_vec_pred, range[1], range[2]),
     Slice0(non_linear, range[1], range[2]), Slice0(loss_mask, range[1], range[2]) >>

\* __getitem__(index) of an index in range
Item(index) == ItemOf(seq_start_end[ListPos(Len(seq_start_end), index) + 1])

\* the indices tried: all of the dataset, and IndexSlack more on either side
IndexSlack == 1

\* The loaded dataset is never written again, so calls do not depend on one
\* another: a run makes one call, of __getitem__ or of seq_collate.
GetItem(index) ==
  /\ pc = "loaded"
  /\ result.op = "none"
  /\ IF IndexInRange(Len(seq_start_end), index)
     THEN result' = [op |-> "getitem", index |-> index, status |-> "ok", out |-> Item(index)]
     ELSE result' = [op |-> "getitem", index |-> index, status |-> "IndexError", out |-> <<>>]
  /\ UNCHANGED <<argVars, pc, file_no, fileVars, idx, listVars, dataVars, log>>

---------------------------------------------------------------------------
\* seq_collate

\* one of the ten lists zip(*data) yields
Column(samples, k) == Tuple([i \in 1..Len(samples) |-> samples[i][k]])

\* _len = [len(seq) for seq in obs_seq_list]
CollateLens(obs_seq_list) == Tuple([i \in 1..Len(obs_seq_list) |-> obs_seq_list[i].shape[1]])

\* CollateRanges without the leading [0] of cum_start_idx
CollateRangesNoZero(lens) == StartEnd(Tail(CumStartIdx(lens)))

\* seq_start_end of the batch
CollateRanges(lens) == StartEnd(CumStartIdx(lens))

\* the tuple seq_collate returns for a non-empty list of samples
SeqCollate(samples) ==
  << Permute201(Cat0(Column(samples, 1))), Permute201(Cat0(Column(samples, 2))),
     Permute201(Cat0(Column(samples, 3))), Permute201(Cat0(Column(samples, 4))),
     Permute201(Cat0(Column(samples, 5))), Permute201(Cat0(Column(samples, 6))),
     Permute201(Cat0(Column(samples, 7))), Permute201(Cat0(Column(samples, 8))),
     Cat0(Column(samples, 9)), Cat0(Column(samples, 10)),
     CollateRanges(CollateLens(Column(samples, 1))) >>

SamplesOf(batch) == Tuple([i \in 1..Len(batch) |-> Item(batch[i])])

\* the lists of window indices collated: the whole dataset in order, and every
\* list of at most MaxBatch windows
Batches == {[i \in 1..num_seq |-> i - 1]} \cup UNION {[1..k -> 0..(num_seq - 1)] : k \in 1..MaxBatch}

Collate(batch) ==
  /\ pc = "loaded"
  /\ result.op = "none"
  /\ result' = [op |-> "collate", batch |-> batch, out |-> SeqCollate(SamplesOf(batch))]
  /\ UNCHANGED <<argVars, pc, file_no, fileVars, idx, listVars, dataVars, log>>

Next ==
  \/ LoadFile
  \/ ProcessWindow
  \/ Concatenate
  \/ \E index \in (-(num_seq + IndexSlack))..(num_seq + IndexSlack - 1) : GetItem(index)
  \/ \E batch \in Batches : Collate(batch)

Spec == Init /\ [][Next]_vars

---------------------------------------------------------------------------
\* The input files read directly, for the properties below

\* the distinct values of column 0 of file n, in increasing order
FileFrames(n) == SortedSeq({files[n][i][1].v : i \in 1..Len(files[n])})

\* the agent id a line stands for
LineAgent(line) == IF IsBall(line[4]) THEN BallId ELSE line[4].v

\* the lines of file n that give agent ped in the frame with id frame
LinesAt(n, frame, ped) == {i \in 1..Len(files[n]) : files[n][i][2].v = frame /\ LineAgent(files[n][i]) = ped}

FileAgents(n) == {LineAgent(files[n][i]) : i \in 1..Len(files[n])}

\* the frame ids of the window a log entry stands for
WindowFrames(e) == PySlice(FileFrames(e.file), e.idx, e.idx + seq_len)

InSeq(x, sq) == \E i \in 1..Len(sq) : sq[i] = x

\* whether the window of a log entry holds more agents than min_ped
Above(e) == Len(e.peds) > min_ped

\* the (file, idx, agent) of every agent of every window above min_ped, in
\* the order of processing
Owners == Flatten([j \in 1..Len(log) |-> IF Above(log[j]) THEN [i \in 1..Len(log[j].peds) |-> <<log[j].file, log[j].idx, log[j].peds[i]>>] ELSE <<>>])

\* the stored sequences of agent k over the whole window
Whole(obs, pred, k, c) == obs.d[k][c] \o pred.d[k][c]

\* the line of the agent of owner o at timestep t (1-based) of its window
OwnerLine(o, t) == files[o[1]][CHOOSE i \in LinesAt(o[1], FileFrames(o[1])[o[2] + t], o[3]) : TRUE]

---------------------------------------------------------------------------
\* C1: in every window processed, each kept agent has exactly one row in each
\* of the seq_len frames of the window, which all exist (so an agent missing
\* from a frame of the window is not kept), whatever the other agents are.
C1_KeptAgentsInEveryFrame ==
  \A j \in 1..Len(log) : \A ped \in FileAgents(log[j].file) :
    InSeq(ped, log[j].peds) =>
      /\ Len(WindowFrames(log[j])) = seq_len
      /\ \A t \in 1..seq_len : Cardinality(LinesAt(log[j].file, WindowFrames(log[j])[t], ped)) = 1

\* a retained window that dropped an agent present in only some of its frames
C1_Witness ==
  \E j \in 1..Len(log) : \E ped \in FileAgents(log[j].file) :
    /\ log[j].retained
    /\ ~InSeq(ped, log[j].peds)
    /\ \E t \in 1..Len(WindowFrames(log[j])) : LinesAt(log[j].file, WindowFrames(log[j])[t], ped) # {}
    /\ \E t \in 1..Len(WindowFrames(log[j])) : LinesAt(log[j].file, WindowFrames(log[j])[t], ped) = {}

\* the entries of the log for file n
LogOf(n) == SelectSeq(log, LAMBDA e : e.file = n)

\* C2: for every file whose window loop has ended, the windows processed are
\* exactly those at 0, skip, ..., (ceil((num_frames - W + 1) / skip) - 1) * skip,
\* and every window processed lies within the frames: start + W <= num_frames.
C2_WindowsAsCounted ==
  /\ \A j \in 1..Len(log) : log[j].idx + seq_len <= Len(FileFrames(log[j].file))
  /\ \A n \in 1..Len(files) : n < file_no =>
       LET count == Max(0, CeilDiv(Len(FileFrames(n)) - seq_len + 1, skip))
       IN /\ Len(LogOf(n)) = count
          /\ \A i \in 1..Len(LogOf(n)) : LogOf(n)[i].idx = (i - 1) * skip

\* C3: every encoded row has exactly one slot of its team vector set to 1.0,
\* the others 0.0; the last slot is the one set exactly for the rows whose
\* team column is "ball"; a ball row without position tag under the schema
\* with_ball, [C, F, G] has team vector [0, 0, 1] and position vector [0, 0, 0].
C3_TeamOneHot ==
  pc = "window" =>
    \A i \in 1..Len(data) :
      LET tv == SubSeq(data[i], 6, 8)
          line == files[file_no][i]
      IN /\ \A c \in 1..3 : tv[c] \in {0, 1}
         /\ Sum(tv) = 1
         /\ (tv[3] = 1) <=> IsBall(line[3])
         /\ Sum(SubSeq(data[i], team_slice[1] + 1, team_slice[2])) = 1
         /\ (schema = FullSchema /\ IsBall(line[3]) /\ Len(line) = 6) => (tv = <<0, 0, 1>> /\ SubSeq(data[i], 9, Len(data[i])) = <<0, 0, 0>>)

\* a ball row without position tag was encoded under with_ball, [C, F, G],
\* next to rows of two teams
C3_Witness ==
  /\ pc = "window"
  /\ schema = FullSchema
  /\ \E i \in 1..Len(data) : IsBall(files[file_no][i][3]) /\ Len(files[file_no][i]) = 6 /\ SubSeq(data[i], 6, 11) = <<0, 0, 1, 0, 0, 0>>
  /\ \E i \in 1..Len(data) : SubSeq(data[i], 6, 8) = <<0, 1, 0>>
  /\ \E i \in 1..Len(data) : SubSeq(data[i], 6, 8) = <<1, 0, 0>>

\* the number of agents of window i (0-based) of the dataset
AgentsOfWindow(i) == seq_start_end[i + 1][2] - seq_start_end[i + 1][1]

\* C4: seq_collate returns one (start, end) per sample, the first start 0,
\* each start the end before it, end - start the agent count of the sample, and
\* the last end the total agent count, which is the length of the agent axis of
\* every batch tensor.
C4_CollateRanges ==
  result.op = "collate" =>
    LET sse == result.out[11]
        n == Len(result.batch)
        total == Sum([i \in 1..n |-> AgentsOfWindow(result.batch[i])])
    IN /\ Len(sse) = n
       /\ sse[1][1] = 0
       /\ \A i \in 2..n : sse[i][1] = sse[i - 1][2]
       /\ \A i \in 1..n : sse[i][2] - sse[i][1] = AgentsOfWindow(result.batch[i])
       /\ sse[n][2] = total
       /\ \A k \in 1..8 : result.out[k].shape[2] = total /\ \A t \in 1..Len(result.out[k].d) : Len(result.out[k].d[t]) = total
       /\ \A k \in 9..10 : result.out[k].shape[1] = total /\ Len(result.out[k].d) = total

\* the whole dataset of at least two windows was collated
C4_Witness == result.op = "collate" /\ num_seq >= 2 /\ result.batch = [i \in 1..num_seq |-> i - 1]

\* C5 as stated: __getitem__ fails for every index outside 0 .. length - 1.
C5_FailsOutsideZeroToLength == (result.op = "getitem" /\ result.index \notin 0..(Length - 1)) => result.status = "IndexError"

\* C5 amended: __getitem__ fails with an index error, and returns no sample,
\* exactly for index >= length and index < -length; for -length <= index < 0 it
\* returns the sample of window length + index.
C5_FailsOutsideList ==
  result.op = "getitem" =>
    /\ (result.status = "IndexError") <=> (result.index >= Length \/ result.index < -Length)
    /\ result.status = "IndexError" => result.out = <<>>
    /\ (-Length <= result.index /\ result.index < 0) => result.out = Item(Length + result.index)

\* __getitem__ failed above the last index, and failed below -length
C5_Witness == result.op = "getitem" /\ result.status = "IndexError" /\ result.index < -Length

C8_VectorsCopiedVerbatim ==
  pc = "loaded" =>
    /\ \A i \in 1..Len(data) : SubSeq(data[i], 5 + TeamVecLen(schema) + 1, 5 + TeamVecLen(schema) + Len(schema.positions)) = PosVector(files[Len(files)][i], schema.positions)
    /\ \A k \in 1..Len(Owners) : \A t \in 1..seq_len :
         /\ [c \in 1..obs_team_vec.shape[2] |-> Whole(obs_team_vec, obs_team_vec_pred, k, c)[t]] = SubSeq(TeamVector(OwnerLine(Owners[k], t)[3], TeamIdsOf(files[Owners[k][1]])), 1, TeamVecLen(schema))
         /\ [c \in 1..obs_pos_vec.shape[2] |-> Whole(obs_pos_vec, obs_pos_vec_pred, k, c)[t]] = PosVector(OwnerLine(Owners[k], t), schema.positions)

\* C9: after the grouping, frames is the sorted list of the distinct values of
\* the frame-id column, block k holds exactly the rows of frame id frames[k],
\* no block is empty and every row lies in exactly one block.
C9_FramesPartitionRows ==
  pc = "window" =>
    /\ frames = SortedSeq({data[i][2] : i \in 1..Len(data)})
    /\ Len(frame_data) = Len(frames)
    /\ \A k \in 1..Len(frame_data) : frame_data[k] # <<>> /\ frame_data[k] = SelectSeq(data, LAMBDA row : row[2] = frames[k])
    /\ \A i \in 1..Len(data) : Cardinality({k \in 1..Len(frame_data) : InSeq(data[i], frame_data[k])}) = 1

\* the ten tensors of the dataset, in the order of __getitem__
Stored == <<obs_traj, pred_traj, obs_traj_rel, pred_traj_rel, obs_team_vec, obs_pos_vec, obs_team_vec_pred, obs_pos_vec_pred, non_linear, loss_mask>>

\* C10: in the loaded dataset the ranges partition the agent axis, one range
\* per window above min_ped in the order of processing; the last end is the
\* length of the agent axis of every tensor, flags and mask included; the flag
\* and the positions at each place of the axis are those of the same agent of
\* the same window; and a sample has the same number of agents in every part.
C10_RangesPartitionAgentAxis ==
  /\ pc = "loaded" =>
       /\ Len(seq_start_end) = Len(SelectSeq(log, Above))
       /\ seq_start_end[1][1] = 0
       /\ \A i \in 2..Len(seq_start_end) : seq_start_end[i][1] = seq_start_end[i - 1][2]
       /\ \A i \in 1..Len(seq_start_end) : seq_start_end[i][2] - seq_start_end[i][1] = Len(SelectSeq(log, Above)[i].peds)
       /\ seq_start_end[Len(seq_start_end)][2] = Len(Owners)
       /\ \A k \in 1..10 : Stored[k].shape[1] = Len(Owners) /\ Len(Stored[k].d) = Len(Owners)
       /\ non_linear_owner = Owners
       /\ \A k \in 1..Len(Owners) : \A t \in 1..seq_len :
            /\ Whole(obs_traj, pred_traj, k, 1)[t] = Around4(OwnerLine(Owners[k], t)[5].v) * FactorNum(metric)
            /\ Whole(obs_traj, pred_traj, k, 2)[t] = Around4(OwnerLine(Owners[k], t)[6].v) * FactorNum(metric)
            /\ loss_mask.d[k][t] = 1
  /\ (result.op = "getitem" /\ result.status = "ok") =>
       \A k \in 1..10 : result.out[k].shape[1] = AgentsOfWindow(ListPos(Length, result.index)) /\ Len(result.out[k].d) = AgentsOfWindow(ListPos(Length, result.index))

\* a dataset loaded after a window was dropped with a kept agent and a later
\* window was stored
C10_Witness ==
  /\ pc = "loaded"
  /\ \E i \in 1..Len(log) : \E j \in 1..Len(log) : i < j /\ ~Above(log[i]) /\ Len(log[i].peds) > 0 /\ Above(log[j])

====
